---- MODULE Spec2Model ----
(***************************************************************************)
(* Model of the two command-line scripts of Network-based_Autopsy:         *)
(*   runProbtrackx2GPU.py  (ROI list, geometry fix, probtrackx2 launch)    *)
(*   registerYeoAtlas.py   (Schaefer atlas registration with FreeSurfer)   *)
(*                                                                         *)
(* Text is a sequence of characters (one-character strings).  The long     *)
(* literals of the source that no operation of the scripts looks inside    *)
(* ("_network_", "fslcpgeom ", the binary paths, the option tails) are     *)
(* kept as one element of the sequence.                                    *)
(***************************************************************************)
EXTENDS Naturals, Sequences, FiniteSets, TLC

VARIABLES
    script,         \* which script was started
    argv,           \* the command line: the flags that were given
    pc,             \* position of the interpreter in the script
    error,          \* the exception that ended the script, or "none"
    args,           \* what parse_args() returned to main
    network_file,   \* main's local network_file
    skip_geometry,  \* main's local skip_geometry
    use_gpu,        \* main's local use_gpu
    cuda,           \* main's local cuda ("unbound" until assigned)
    device,         \* main's local device ("unbound" until assigned)
    rois,           \* the list returned by get_roi_list
    environ,        \* os.environ: the variables the scripts set
    cudaQuery,      \* what torch.cuda.is_available() answered
    maskQuery,      \* what os.path.exists(mask) answered
    parentDir,      \* filesystem: state of the directory given with -o
    outDir,         \* filesystem: state of <output_directory>/<directory_name>
    listing,        \* filesystem: os.listdir order of the input directory
    files,          \* filesystem: text files (path -> content)
    effects,        \* history of the filesystem/environment writes, in order
    procs,          \* history of the external commands started, in order
    status,         \* exit status of the external command that ended last
    pending,        \* set_geometry: the lines of the loop still to process
    subjectsDir,    \* filesystem: os.listdir order of the subjects directory
    call,           \* registerYeoAtlas: the function that was called
    hemis,          \* registerYeoAtlas: hemispheres the running loop has left
    run_command,    \* callSub's parameter
    issued          \* history of the command strings handed to callSub

vars == <<script, argv, pc, error, args, network_file, skip_geometry, use_gpu,
          cuda, device, rois, environ, cudaQuery, maskQuery, parentDir, outDir,
          listing, files, effects, procs, status, pending, subjectsDir, call,
          hemis, run_command, issued>>

ptxLocals == <<args, network_file, skip_geometry, use_gpu, cuda, device, rois>>
fsVars == <<parentDir, outDir, listing, files>>
regVars == <<subjectsDir, call, hemis, run_command, issued>>

-----------------------------------------------------------------------------
(* Bounds of the model *)

\* most entries the input directory (and the subjects directory) holds
MaxEntries == 2

-----------------------------------------------------------------------------
(* Text *)

NL == "\n"

\* Python's None, a value no text equals
None == <<"<None>">>

EndsWithBare(s, suffix) ==
    /\ Len(s) >= Len(suffix) - 1
    /\ SubSeq(s, Len(s) - Len(suffix) + 2, Len(s)) = Tail(suffix)

\* str.endswith
EndsWith(s, suffix) ==
    /\ Len(s) >= Len(suffix)
    /\ SubSeq(s, Len(s) - Len(suffix) + 1, Len(s)) = suffix

\* os.path.join of two components (posixpath)
PathJoin(a, b) ==
    IF b # <<>> /\ b[1] = "/" THEN b
    ELSE IF a = <<>> \/ a[Len(a)] = "/" THEN a \o b
    ELSE a \o <<"/">> \o b

\* file.readlines(): every line keeps its terminator; a last line without one is
\* a line too
RECURSIVE ReadLinesFrom(_, _)
ReadLinesFrom(content, line) ==
    IF content = <<>> THEN (IF line = <<>> THEN <<>> ELSE <<line>>)
    ELSE IF Head(content) = NL
         THEN <<Append(line, NL)>> \o ReadLinesFrom(Tail(content), <<>>)
         ELSE ReadLinesFrom(Tail(content), Append(line, Head(content)))

ReadLines(content) == ReadLinesFrom(content, <<>>)

\* for item in rois: f.write("%s\n" % item)
RECURSIVE WriteLines(_)
WriteLines(items) ==
    IF items = <<>> THEN <<>>
    ELSE Head(items) \o <<NL>> \o WriteLines(Tail(items))

-----------------------------------------------------------------------------
(* Inputs *)

\* the values given with -i, -s, -o, -b and, when given, -n
InputDirectory == <<"/", "r">>
Subject == <<"s">>
OutputDirectory == <<"/", "o">>
BedpostDirectory == <<"/", "b">>
UserNetwork == <<"/", "n">>

\* datetime.date.today().strftime("%Y%m%d")
CurrentDate == <<"2", "0", "2", "2", "0", "7", "2", "7">>

PtxRequired == {"input_directory", "subject", "output_directory", "bedpost_directory"}
RegRequired == {"subject_directory", "fs_average", "atlas_directory", "lut"}

PtxValue(flag) ==
    CASE flag = "input_directory" -> InputDirectory
      [] flag = "subject" -> Subject
      [] flag = "output_directory" -> OutputDirectory
      [] flag = "bedpost_directory" -> BedpostDirectory

ExitStatus == {0, 1, 127}


\* names the input directory can hold
NameA == <<"a", ".", "n", "i", "i">>
NameB == <<"b", ".", "n", "i", "i">>
NameGz == <<"c", ".", "n", "i", "i", ".", "g", "z">>
NameNoDot == <<"n", "i", "i">>
NameLF == <<"d", NL, "e", ".", "n", "i", "i">>

\* network_file_name = subject + "_network_" + date + ".txt"
NetworkFileName(subject, date) == subject \o <<"_network_">> \o date \o <<".txt">>

EntryNames ==
    {NameA, NameB, NameGz, NameNoDot, NameLF, NetworkFileName(Subject, CurrentDate)}

\* the orders os.listdir can return for a directory of at most n of the names
ListingsOf(names, n) ==
    {l \in UNION {[1..k -> names] : k \in 0..n} :
        \A i, j \in 1..Len(l) : i # j => l[i] # l[j]}

\* os.listdir of a directory that does not exist raises; this value stands for it
NoDir == <<None>>

SeqRange(s) == {s[i] : i \in 1..Len(s)}

\* what a network text file given with -n can hold
UserContents ==
    LET a == PathJoin(InputDirectory, NameA)
        b == PathJoin(InputDirectory, NameB)
    IN  { <<>>,
          b \o <<NL>> \o a \o <<NL>>,
          a \o <<NL, NL>> \o a }

\* a network file left in the input directory by an earlier run
StaleContent == PathJoin(InputDirectory, NameGz) \o <<NL>>

EnvNames == {"FSLDIR", "CUDA_HOME", "CUDA_VISIBLE_DEVICES", "LD_LIBRARY_PATH"}

SubjectNames == {<<"s", "1">>, <<"s", "2">>, <<"fsaverage6">>}

-----------------------------------------------------------------------------
(* runProbtrackx2GPU.py: functions *)

\* parser.error: argparse prints the usage and raises SystemExit(2)
UsageError == [exit |-> 2]

IsUsageError(r) == "exit" \in DOMAIN r

\* parse_args: the namespace, or the usage error when a required flag is missing
PtxParseArgs(av) ==
    IF ~(PtxRequired \subseteq av.given) THEN UsageError
    ELSE [input_directory |-> PtxValue("input_directory"),
          subject |-> PtxValue("subject"),
          output_directory |-> PtxValue("output_directory"),
          bedpost_directory |-> PtxValue("bedpost_directory"),
          network |-> av.network,
          no_geometry_fix |-> av.no_geometry_fix,
          cpu |-> av.cpu]

\* output_directory = os.path.join(output_directory, directory_name)
OutputPath(a) ==
    PathJoin(a.output_directory, a.subject \o <<".probtrackx.network.">> \o CurrentDate)

NetworkFileIgnored(a) == None

\* if args.network is not None: network_file = args.network, else None
NetworkFileArg(a) == IF a.network # None THEN a.network ELSE None

SkipGeometryNever(a) == FALSE

\* if args.no_geometry_fix is not False: skip_geometry = args.no_geometry_fix
SkipGeometry(a) == IF a.no_geometry_fix # FALSE THEN a.no_geometry_fix ELSE FALSE

\* if args.cpu is True: use_gpu = False, else True
UseGpu(a) == IF a.cpu = TRUE THEN FALSE ELSE TRUE

CudaHome == "/usr/pubsw/packages/CUDA/11.6/"
CudaLibraryPath ==
    "/usr/pubsw/packages/CUDA/11.6/lib64:/usr/pubsw/packages/CUDA/11.6/extras/CUPTI/lib64:/usr/pubsw/packages/CUDA/9.0/lib64:/usr/pubsw/packages/CUDA/9.1/lib64"
FslDir == "/usr/pubsw/packages/fsl/6.0.5.1"

\* set_device: with a CUDA device the environment is set and (cuda device, True)
\* is returned; without one, `cuda` was never assigned and `return(device, cuda)`
\* raises UnboundLocalError
SetDevice(available, env) ==
    IF available
    THEN [raised |-> "none", device |-> "cuda", cuda |-> "True",
          environ |-> [env EXCEPT !["CUDA_HOME"] = CudaHome,
                                  !["CUDA_VISIBLE_DEVICES"] = "0",
                                  !["LD_LIBRARY_PATH"] = CudaLibraryPath],
          effects |-> <<"setenv CUDA_HOME", "setenv CUDA_VISIBLE_DEVICES",
                        "setenv LD_LIBRARY_PATH">>]
    ELSE [raised |-> "UnboundLocalError", device |-> "unbound", cuda |-> "unbound",
          environ |-> env, effects |-> <<>>]

\* get_roi_list: the items of the directory that end in ".nii", in listdir order
RoiItems(roi_path, names) ==
    LET items == [i \in 1..Len(names) |-> PathJoin(roi_path, names[i])]
    IN  SelectSeq(items, LAMBDA item : EndsWith(item, <<".", "n", "i", "i">>))

\* get_roi_list: network_file = os.path.join(roi_path, network_file_name)
NetworkFilePath(roi_path, subject, date) ==
    PathJoin(roi_path, NetworkFileName(subject, date))

\* open(path, 'w') and the writes: the file holds exactly `content` afterwards
WriteFile(fs, path, content) ==
    [p \in DOMAIN fs \cup {path} |-> IF p = path THEN content ELSE fs[p]]

\* set_geometry: mask = os.path.join(bedpost_directory, "nodif_brain_mask.nii.gz")
MaskPath(bedpost_directory) == PathJoin(bedpost_directory, <<"nodif_brain_mask.nii.gz">>)

\* geometryCommand = "fslcpgeom " + mask + " " + line
GeometryCommand(mask, line) == <<"fslcpgeom ">> \o mask \o <<" ">> \o line

GpuBinary == "/usr/pubsw/packages/fsl/6.0.5.1/bin/probtrackx2_gpu"
CpuBinary == "/usr/pubsw/packages/fsl/6.0.5.1/bin/probtrackx2"

\* build_probtrackx_command: if cuda == True the GPU binary, else the CPU binary
ProbtrackxVersion(c) == IF c = "True" THEN GpuBinary ELSE CpuBinary

ProbtrackxTail ==
    " -l -c 0.2 -S 2000 -P 5000 --fibthresh=0.01 --distthresh=0.0 --sampvox=0.0 --steplength=0.25 --forcedir --opd --network -V 1"

\* build_probtrackx_command: the command string
ProbtrackxCommand(output_directory, bedpost_directory, network_matrix, c) ==
    <<ProbtrackxVersion(c), " -x ">> \o network_matrix
        \o <<" -s ">> \o PathJoin(bedpost_directory, <<"merged">>)
        \o <<" -m ">> \o PathJoin(bedpost_directory, <<"nodif_brain_mask">>)
        \o <<" --dir=">> \o output_directory \o <<ProbtrackxTail>>

-----------------------------------------------------------------------------
(* External processes *)

\* os.system / Popen.__exit__ / subprocess.call return when the child has exited
ChildExited == \A i \in 1..Len(procs) : procs[i].state = "exited"

\* the shell is handed the command and the child starts
StartProcess(cmd) == Append(procs, [cmd |-> cmd, state |-> "running"])

\* the running child exits with some status
ProcessExit ==
    /\ \E i \in 1..Len(procs) :
          /\ procs[i].state = "running"
          /\ procs' = [procs EXCEPT ![i].state = "exited"]
    /\ \E st \in ExitStatus : status' = st
    /\ UNCHANGED <<script, argv, pc, error, ptxLocals, environ, cudaQuery,
                   maskQuery, fsVars, effects, pending, regVars>>

-----------------------------------------------------------------------------
(* runProbtrackx2GPU.py: main *)

Raise(exception) ==
    /\ error' = exception
    /\ pc' = "crashed"

\* main, "Set Date and Time" and "Argument Handling"
Ptx_ArgumentHandling ==
    /\ script = "runProbtrackx2GPU"
    /\ pc = "main"
    /\ LET ns == PtxParseArgs(argv)
       IN  IF IsUsageError(ns)
           THEN /\ error' = "usage"
                /\ pc' = "exit"
                /\ UNCHANGED <<args, network_file, skip_geometry, use_gpu>>
           ELSE /\ args' = ns
                /\ network_file' = NetworkFileArg(ns)
                /\ skip_geometry' = SkipGeometry(ns)
                /\ use_gpu' = UseGpu(ns)
                /\ pc' = "device"
                /\ UNCHANGED error
    /\ UNCHANGED <<script, argv, cuda, device, rois, environ, cudaQuery, maskQuery,
                   fsVars, effects, procs, status, pending, regVars>>

\* main, "Device Configuration"
Ptx_DeviceConfiguration ==
    /\ script = "runProbtrackx2GPU"
    /\ pc = "device"
    /\ IF use_gpu = TRUE
       THEN \E available \in BOOLEAN :
              LET r == SetDevice(available, environ)
              IN  /\ cudaQuery' = IF available THEN "available" ELSE "unavailable"
                  /\ environ' = r.environ
                  /\ effects' = effects \o r.effects
                  /\ IF r.raised = "none"
                     THEN /\ device' = r.device
                          /\ cuda' = r.cuda
                          /\ pc' = "environment"
                          /\ UNCHANGED error
                     ELSE /\ Raise(r.raised)
                          /\ UNCHANGED <<device, cuda>>
       ELSE /\ device' = "cpu"
            /\ cuda' = "False"
            /\ pc' = "environment"
            /\ UNCHANGED <<error, environ, effects, cudaQuery>>
    /\ UNCHANGED <<script, argv, args, network_file, skip_geometry, use_gpu, rois,
                   maskQuery, fsVars, procs, status, pending, regVars>>

\* main, "Set Up Enviornment"
Ptx_SetUpEnvironment ==
    /\ script = "runProbtrackx2GPU"
    /\ pc = "environment"
    /\ environ' = [environ EXCEPT !["FSLDIR"] = FslDir]
    /\ effects' = Append(effects, "setenv FSLDIR")
    /\ pc' = "outdir"
    /\ UNCHANGED <<script, argv, error, ptxLocals, cudaQuery, maskQuery, fsVars,
                   procs, status, pending, regVars>>

\* main, "Set Up Output Directory": os.mkdir creates one level only
Ptx_SetUpOutputDirectory ==
    /\ script = "runProbtrackx2GPU"
    /\ pc = "outdir"
    /\ LET isExist == outDir # "absent"
       IN  IF ~isExist
           THEN IF parentDir = "dir"
                THEN /\ outDir' = "dir"
                     /\ effects' = Append(effects, "mkdir")
                     /\ pc' = "roilist"
                     /\ UNCHANGED error
                ELSE /\ Raise("FileNotFoundError")
                     /\ UNCHANGED <<outDir, effects>>
           ELSE /\ pc' = "roilist"
                /\ UNCHANGED <<outDir, effects, error>>
    /\ UNCHANGED <<script, argv, ptxLocals, environ, cudaQuery, maskQuery, parentDir,
                   listing, files, procs, status, pending, regVars>>

\* main, "Main Function Calls": the ROI list is generated unless -n gave one
Ptx_RoiList ==
    /\ script = "runProbtrackx2GPU"
    /\ pc = "roilist"
    /\ IF network_file # None
       THEN /\ pc' = "geometry"
            /\ UNCHANGED <<network_file, rois, listing, files, effects, error>>
       ELSE IF listing = NoDir
            THEN /\ Raise("FileNotFoundError")
                 /\ UNCHANGED <<network_file, rois, listing, files, effects>>
            ELSE LET found == RoiItems(args.input_directory, listing)
                     path == NetworkFilePath(args.input_directory, args.subject, CurrentDate)
                     name == NetworkFileName(args.subject, CurrentDate)
                 IN  /\ rois' = found
                     /\ network_file' = path
                     /\ files' = WriteFile(files, path, WriteLines(found))
                     /\ listing' = IF name \in SeqRange(listing) THEN listing
                                   ELSE Append(listing, name)
                     /\ effects' = Append(effects, "write")
                     /\ pc' = "geometry"
                     /\ UNCHANGED error
    /\ UNCHANGED <<script, argv, args, skip_geometry, use_gpu, cuda, device, environ,
                   cudaQuery, maskQuery, parentDir, outDir, procs, status, pending,
                   regVars>>

\* main, the geometry step, and set_geometry up to its loop
Ptx_Geometry ==
    /\ script = "runProbtrackx2GPU"
    /\ pc = "geometry"
    /\ IF skip_geometry = TRUE
       THEN /\ pending' = <<>>
            /\ UNCHANGED maskQuery
       ELSE \E maskExists \in BOOLEAN :
              /\ maskQuery' = IF maskExists THEN "exists" ELSE "missing"
              /\ pending' = IF maskExists /\ network_file \in DOMAIN files
                            THEN ReadLines(files[network_file])
                            ELSE <<>>
    /\ pc' = "geomloop"
    /\ UNCHANGED <<script, argv, error, ptxLocals, environ, cudaQuery, fsVars,
                   effects, procs, status, regVars>>

\* set_geometry, one turn of the loop: os.system(geometryCommand)
Ptx_GeometryCommand ==
    /\ script = "runProbtrackx2GPU"
    /\ pc = "geomloop"
    /\ ChildExited
    /\ pending # <<>>
    /\ procs' = StartProcess(GeometryCommand(MaskPath(args.bedpost_directory),
                                             Head(pending)))
    /\ pending' = Tail(pending)
    /\ UNCHANGED <<script, argv, pc, error, ptxLocals, environ, cudaQuery, maskQuery,
                   fsVars, effects, status, regVars>>

\* main, "Running Probtrackx2": build_probtrackx_command
Ptx_RunProbtrackx ==
    /\ script = "runProbtrackx2GPU"
    /\ pc = "geomloop"
    /\ ChildExited
    /\ pending = <<>>
    /\ procs' = StartProcess(ProbtrackxCommand(OutputPath(args), args.bedpost_directory,
                                               network_file, cuda))
    /\ pc' = "probtrackx"
    /\ UNCHANGED <<script, argv, error, ptxLocals, environ, cudaQuery, maskQuery,
                   fsVars, effects, status, pending, regVars>>

\* main, print("Done!")
Ptx_Done ==
    /\ script = "runProbtrackx2GPU"
    /\ pc = "probtrackx"
    /\ ChildExited
    /\ pc' = "done"
    /\ UNCHANGED <<script, argv, error, ptxLocals, environ, cudaQuery, maskQuery,
                   fsVars, effects, procs, status, pending, regVars>>

-----------------------------------------------------------------------------
(* registerYeoAtlas.py *)

\* parse_args: the parser is built, parse_args() of the parser is never called and
\* nothing is returned, whatever the command line holds
RegParseArgs(av) == None

\* main, "Argument Handling": args.subject_directory on what parse_args returned.
\* With args None the attribute access raises, so no statement of main after it
\* (the loop over the subjects) is ever reached.
Reg_ArgumentHandling ==
    /\ script = "registerYeoAtlas"
    /\ pc = "main"
    /\ args' = RegParseArgs(argv)
    /\ IF args' = None
       THEN Raise("AttributeError")
       ELSE /\ pc' = "subjects"
            /\ UNCHANGED error
    /\ UNCHANGED <<script, argv, network_file, skip_geometry, use_gpu, cuda, device,
                   rois, environ, cudaQuery, maskQuery, fsVars, effects, procs,
                   status, pending, regVars>>

\* the values given with -s, -f, -a, -l
SubjectsDirectory == <<"/", "S">>
FsAverage == <<"/", "f">>
AtlasDirectory == <<"/", "C">>
Lut == <<"/", "l">>

\* the names bound at module level besides the imports and the functions: main
\* keeps SUBJECTS_DIR, CBIG_CODE_DIR, FSA and f_LUT as its own locals
RegGlobals == [n \in {} |-> <<>>]

AnnotName == ".Schaefer2018_1000Parcels_7Networks_order.annot"

\* surfReg: surfCmd for one hemisphere
SurfCmd(hemi, subject, subject_dir, subjects_dir, cbig_code_dir, fsa) ==
    LET annotFile ==
            PathJoin(cbig_code_dir,
                <<"stable_projects/brain_parcellation/Schaefer2018_LocalGlobal/Parcellations/FreeSurfer5.3/">>
                \o fsa \o <<"/label/", hemi, AnnotName>>)
        targVal == PathJoin(subject_dir, <<"label/", hemi, AnnotName>>)
    IN  <<"mri_surf2surf --hemi ", hemi, " --srcsubject ">> \o fsa
            \o <<" --trgsubject ">> \o subject \o <<" --sval-annot ">> \o annotFile
            \o <<" --tval ">> \o targVal

\* parc2seg: parc2segCmd
Parc2segCmd(subject, subject_directory) ==
    <<"mri_aparc2aseg --s ">> \o subject \o <<" --o ">> \o subject_directory
        \o <<"/mri/">> \o subject
        \o <<"_Schaefer2018_1000Parcels_7Networks.mgz --annot Schaefer2018_1000Parcels_7Networks_order">>

\* annot2label: annot2labelCmd for one hemisphere
Annot2labelCmd(subject, hemi, output_directory) ==
    <<"mri_annotation2label --subject ">> \o subject
        \o <<" --hemi ", hemi,
             " --annotation Schaefer2018_1000Parcels_7Networks_order --outdir ">>
        \o output_directory \o <<" --ctab ">> \o output_directory
        \o <<"/Schaefer2018_", hemi, "_LUT.txt">>

\* main: symlinkCmd, the text handed to the shell
SymlinkCmd(f_LUT, subDir) ==
    <<"os.symlink(">> \o f_LUT \o <<", os.path.join(">> \o subDir
        \o <<",Schaefer2018_1000Parcels_7Networks_order_LUT.txt">>

\* for hemi in ('lh', 'rh')
Hemispheres == <<"lh", "rh">>

\* surfReg, one turn of the loop: os.chdir(SUBJECTS_DIR) looks the name up in the
\* module, which does not bind it
Reg_SurfReg ==
    /\ pc = "surfReg"
    /\ hemis # <<>>
    /\ IF {"SUBJECTS_DIR", "CBIG_CODE_DIR", "FSA"} \subseteq DOMAIN RegGlobals
       THEN /\ run_command' = SurfCmd(Head(hemis), call.subject, call.directory,
                                      RegGlobals["SUBJECTS_DIR"],
                                      RegGlobals["CBIG_CODE_DIR"], RegGlobals["FSA"])
            /\ hemis' = Tail(hemis)
            /\ pc' = "callSub"
            /\ UNCHANGED error
       ELSE /\ Raise("NameError")
            /\ UNCHANGED <<run_command, hemis>>
    /\ UNCHANGED <<script, argv, ptxLocals, environ, cudaQuery, maskQuery, fsVars,
                   effects, procs, status, pending, subjectsDir, call, issued>>

\* parc2seg
Reg_Parc2seg ==
    /\ pc = "parc2seg"
    /\ run_command' = Parc2segCmd(call.subject, call.directory)
    /\ pc' = "callSub"
    /\ UNCHANGED <<script, argv, error, ptxLocals, environ, cudaQuery, maskQuery,
                   fsVars, effects, procs, status, pending, subjectsDir, call, hemis,
                   issued>>

\* annot2label, one turn of the loop, or its end
Reg_Annot2label ==
    /\ pc = "annot2label"
    /\ IF hemis = <<>>
       THEN /\ pc' = "returned"
            /\ UNCHANGED <<run_command, hemis>>
       ELSE /\ run_command' = Annot2labelCmd(call.subject, Head(hemis), call.directory)
            /\ hemis' = Tail(hemis)
            /\ pc' = "callSub"
    /\ UNCHANGED <<script, argv, error, ptxLocals, environ, cudaQuery, maskQuery,
                   fsVars, effects, procs, status, pending, subjectsDir, call, issued>>

\* callSub: subprocess.Popen([run_command], shell=True, ...) starts the command
CallSub_Popen ==
    /\ pc = "callSub"
    /\ procs' = StartProcess(run_command)
    /\ issued' = Append(issued, run_command)
    /\ pc' = "callSub.with"
    /\ UNCHANGED <<script, argv, error, ptxLocals, environ, cudaQuery, maskQuery,
                   fsVars, effects, status, pending, subjectsDir, call, hemis,
                   run_command>>

\* callSub: the output is read to its end, the with block waits for the child, and
\* subprocess.call([run_command], shell=True, ...) starts the command
CallSub_Call ==
    /\ pc = "callSub.with"
    /\ ChildExited
    /\ procs' = StartProcess(run_command)
    /\ pc' = "callSub.call"
    /\ UNCHANGED <<script, argv, error, ptxLocals, environ, cudaQuery, maskQuery,
                   fsVars, effects, status, pending, regVars>>

\* callSub: subprocess.call has waited for the child; back in the caller
CallSub_Return ==
    /\ pc = "callSub.call"
    /\ ChildExited
    /\ pc' = IF call.fn \in {"surfReg", "annot2label"} THEN call.fn ELSE "returned"
    /\ UNCHANGED <<script, argv, error, ptxLocals, environ, cudaQuery, maskQuery,
                   fsVars, effects, procs, status, pending, regVars>>

-----------------------------------------------------------------------------
(* The scripts run from the command line *)

UnsetEnviron == [n \in EnvNames |-> "unset"]

InitLocals ==
    /\ error = "none"
    /\ args = None
    /\ network_file = None
    /\ skip_geometry = FALSE
    /\ use_gpu = FALSE
    /\ cuda = "unbound"
    /\ device = "unbound"
    /\ rois = <<>>
    /\ environ = UnsetEnviron
    /\ cudaQuery = "unqueried"
    /\ maskQuery = "unqueried"
    /\ effects = <<>>
    /\ procs = <<>>
    /\ status = 0
    /\ pending = <<>>
    /\ issued = <<>>

InitPtx ==
    /\ script = "runProbtrackx2GPU"
    /\ argv \in [given : SUBSET PtxRequired, network : {None, UserNetwork},
                 no_geometry_fix : BOOLEAN, cpu : BOOLEAN]
    /\ parentDir \in {"dir", "absent"}
    /\ outDir \in IF parentDir = "dir" THEN {"absent", "dir", "file"} ELSE {"absent"}
    /\ listing \in ListingsOf(EntryNames, MaxEntries) \cup {NoDir}
    /\ \E user \in [exists : {TRUE}, content : UserContents]
                     \cup {[exists |-> FALSE, content |-> <<>>]} :
         LET left == NetworkFilePath(InputDirectory, Subject, CurrentDate)
             stale == IF NetworkFileName(Subject, CurrentDate) \in SeqRange(listing)
                      THEN {left} ELSE {}
             given == IF argv.network # None /\ user.exists THEN {UserNetwork} ELSE {}
         IN  /\ argv.network = None => ~user.exists
             /\ files = [p \in stale \cup given |->
                            IF p = UserNetwork THEN user.content ELSE StaleContent]
    /\ subjectsDir = <<>>
    /\ call = [fn |-> "main"]
    /\ pc = "main"
    /\ hemis = <<>>
    /\ run_command = None
    /\ InitLocals

InitReg ==
    /\ script = "registerYeoAtlas"
    /\ argv \in [given : SUBSET RegRequired]
    /\ subjectsDir \in ListingsOf(SubjectNames, MaxEntries)
    /\ parentDir = "absent"
    /\ outDir = "absent"
    /\ listing = <<>>
    /\ files = <<>>
    /\ call = [fn |-> "main"]
    /\ pc = "main"
    /\ hemis = <<>>
    /\ run_command = None
    /\ InitLocals

Init == InitPtx \/ InitReg

Next ==
    \/ Ptx_ArgumentHandling
    \/ Ptx_DeviceConfiguration
    \/ Ptx_SetUpEnvironment
    \/ Ptx_SetUpOutputDirectory
    \/ Ptx_RoiList
    \/ Ptx_Geometry
    \/ Ptx_GeometryCommand
    \/ Ptx_RunProbtrackx
    \/ Ptx_Done
    \/ Reg_ArgumentHandling
    \/ ProcessExit

Spec == Init /\ [][Next]_vars

-----------------------------------------------------------------------------
(* The functions of registerYeoAtlas.py called one at a time *)

\* the calls main makes for a subject, and callSub on a command of its own
RegCalls ==
    LET dirOf(subj) == PathJoin(SubjectsDirectory, subj)
    IN  {[fn |-> "surfReg", subject |-> subj, directory |-> dirOf(subj)] :
            subj \in SubjectNames}
        \cup {[fn |-> "parc2seg", subject |-> subj, directory |-> dirOf(subj)] :
            subj \in SubjectNames}
        \cup {[fn |-> "annot2label", subject |-> subj,
               directory |-> PathJoin(dirOf(subj), <<"Schaefer2018_labels">>)] :
            subj \in SubjectNames}
        \cup {[fn |-> "callSub", run_command |-> SymlinkCmd(Lut, dirOf(subj))] :
            subj \in SubjectNames}

InitCalls ==
    /\ script = "registerYeoAtlas"
    /\ argv = [given |-> RegRequired]
    /\ subjectsDir = <<>>
    /\ parentDir = "absent"
    /\ outDir = "absent"
    /\ listing = <<>>
    /\ files = <<>>
    /\ call \in RegCalls
    /\ pc = call.fn
    /\ hemis = IF call.fn \in {"surfReg", "annot2label"} THEN Hemispheres ELSE <<>>
    /\ run_command = IF call.fn = "callSub" THEN call.run_command ELSE None
    /\ InitLocals

NextCalls ==
    \/ Reg_SurfReg
    \/ Reg_Parc2seg
    \/ Reg_Annot2label
    \/ CallSub_Popen
    \/ CallSub_Call
    \/ CallSub_Return
    \/ ProcessExit

SpecCalls == InitCalls /\ [][NextCalls]_vars

-----------------------------------------------------------------------------
(* Vocabulary of the properties *)

Ptx == script = "runProbtrackx2GPU"
Reg == script = "registerYeoAtlas"

AllRequiredGiven == argv.given = (IF Ptx THEN PtxRequired ELSE RegRequired)

\* the command strings started so far, in order
Commands == [i \in 1..Len(procs) |-> procs[i].cmd]

IsGeometry(cmd) == cmd[1] = "fslcpgeom "
IsProbtrackx(cmd) == cmd[1] \in {GpuBinary, CpuBinary}
IsFreeSurfer(cmd) ==
    \E tool \in {"mri_surf2surf --hemi ", "mri_aparc2aseg --s ",
                 "mri_annotation2label --subject "} : cmd[1] = tool

Running == {i \in 1..Len(procs) : procs[i].state = "running"}

\* the lines of a text, without their terminators
NLPositions(c) == {i \in 1..Len(c) : c[i] = NL}
KthNL(c, k) ==
    CHOOSE i \in NLPositions(c) : Cardinality({j \in NLPositions(c) : j <= i}) = k
LineCount(c) ==
    Cardinality(NLPositions(c)) + (IF c # <<>> /\ c[Len(c)] # NL THEN 1 ELSE 0)
TextLines(c) ==
    [k \in 1..LineCount(c) |->
        SubSeq(c, IF k = 1 THEN 1 ELSE KthNL(c, k - 1) + 1,
                  IF k <= Cardinality(NLPositions(c)) THEN KthNL(c, k) - 1 ELSE Len(c))]
EveryLineTerminated(c) == c = <<>> \/ c[Len(c)] = NL

DropNL(c) == IF c # <<>> /\ c[Len(c)] = NL THEN SubSeq(c, 1, Len(c) - 1) ELSE c

HasNiiSuffix(name) ==
    /\ Len(name) >= 4
    /\ name[Len(name) - 3] = "."
    /\ name[Len(name) - 2] = "n"
    /\ name[Len(name) - 1] = "i"
    /\ name[Len(name)] = "i"

\* the network file get_roi_list writes to
GeneratedNetworkFile ==
    InputDirectory \o <<"/">> \o Subject \o <<"_network_">> \o CurrentDate \o <<".txt">>

\* roi_path/<name> for the entries of the input directory that end in ".nii"
ExpectedRois ==
    LET names == SelectSeq(listing, HasNiiSuffix)
    IN  [i \in 1..Len(names) |-> InputDirectory \o <<"/">> \o names[i]]

\* get_roi_list has run
RoiListGenerated == Ptx /\ "write" \in SeqRange(effects)

NoLineBreakInNames == \A n \in SeqRange(listing) : NL \notin SeqRange(n)

RoiListAsClaimed ==
    /\ rois = ExpectedRois
    /\ network_file = GeneratedNetworkFile
    /\ network_file \in DOMAIN files
    /\ EveryLineTerminated(files[network_file])
    /\ TextLines(files[network_file]) = rois

\* what follows -x in a probtrackx2 command
XValue(cmd) ==
    LET k == CHOOSE i \in 1..Len(cmd) :
                 cmd[i] = " -s " /\ \A j \in 1..(i - 1) : cmd[j] # " -s "
    IN  SubSeq(cmd, 3, k - 1)

ExpectedMask == BedpostDirectory \o <<"/", "nodif_brain_mask.nii.gz">>

GeometryCommands == SelectSeq(Commands, IsGeometry)

\* 'fslcpgeom <mask> <line>' for every line of a text, in order
ExpectedGeometry(content) ==
    [k \in 1..LineCount(content) |->
        <<"fslcpgeom ">> \o ExpectedMask \o <<" ">> \o TextLines(content)[k]]

IsPrefix(s, t) == Len(s) <= Len(t) /\ SubSeq(t, 1, Len(s)) = s

-----------------------------------------------------------------------------
(* C1 *)

\* C1: in both scripts, when every required flag is given, parse_args accepts the
\* command line, main holds the value of each flag as parse_args returned it, and
\* main goes on to the processing steps: argument handling raises nothing.
C1_RequiredFlagsAccepted ==
    (AllRequiredGiven /\ pc # "main") =>
        /\ error \notin {"usage", "AttributeError"}
        /\ IF Ptx THEN \A f \in PtxRequired : args[f] = PtxValue(f)
           ELSE args # None

(* C2 *)

\* C2: in both scripts, a command line that lacks a required flag is rejected by
\* argparse (usage error), before any directory is created, any file written, any
\* environment variable set and any external command run.
C2_MissingFlagRejected ==
    (~AllRequiredGiven /\ pc # "main") =>
        /\ error = "usage"
        /\ pc = "exit"
        /\ effects = <<>>
        /\ procs = <<>>
        /\ environ = UnsetEnviron

(* C3 *)

\* C3 as stated: for every content of the input directory, the list get_roi_list
\* returns and the lines of the network file it writes are the same sequence: the
\* paths roi_path/<name> of the entries that end in ".nii", each once, one per
\* line, and nothing else.
C3_RoiListForEveryDirectory == RoiListGenerated => RoiListAsClaimed

\* C3, amended: the same, for every content of the input directory in which no
\* entry name holds a line break.
C3_RoiListOnePerLine == (RoiListGenerated /\ NoLineBreakInNames) => RoiListAsClaimed

C3_Witness ==
    /\ RoiListGenerated
    /\ NoLineBreakInNames
    /\ rois # <<>>
    /\ Cardinality(SeqRange(listing)) > Len(rois) + 1

(* C4 *)

\* C4: the directory-creation step raises no error and leaves an existing output
\* directory as it is, creates a missing one, and the directory exists afterwards.
C4_DirectoryCreation ==
    [][(Ptx /\ pc = "outdir" /\ outDir \in {"dir", "absent"}) =>
          /\ error' = "none"
          /\ outDir' = "dir"
          /\ outDir = "dir" => effects' = effects]_vars

(* C5 *)

\* C5: the probtrackx2 command uses the GPU binary exactly when --cpu is not given
\* and a CUDA device is available, the CPU binary otherwise; without --cpu and
\* without a CUDA device, set_device returns the CPU device to main, which goes on.
C5_BinarySelection ==
    Ptx =>
        /\ \A i \in 1..Len(procs) :
              IsProbtrackx(procs[i].cmd) =>
                 /\ procs[i].cmd[1] = GpuBinary
                       <=> (~argv.cpu /\ cudaQuery = "available")
                 /\ procs[i].cmd[1] = CpuBinary
                       <=> ~(~argv.cpu /\ cudaQuery = "available")
        /\ (AllRequiredGiven /\ ~argv.cpu /\ cudaQuery = "unavailable") =>
              /\ error = "none"
              /\ device = "cpu"

(* C6 *)

\* C6: with --no_geometry_fix no fslcpgeom command is ever started; without it,
\* when the mask and the network file exist, the fslcpgeom commands started are
\* 'fslcpgeom <mask> <line>' for the lines of the network file, one each, in file
\* order (while the loop runs: for the lines already taken), and when the
\* probtrackx2 command is started all of them have been started and have exited.
C6_GeometryFix ==
    Ptx =>
        /\ (AllRequiredGiven /\ argv.no_geometry_fix) => GeometryCommands = <<>>
        /\ (pc \in {"geomloop", "probtrackx", "done"} /\ ~argv.no_geometry_fix
               /\ maskQuery = "exists" /\ network_file \in DOMAIN files) =>
              LET expected == ExpectedGeometry(files[network_file])
                  started == [i \in 1..Len(GeometryCommands) |->
                                 DropNL(GeometryCommands[i])]
              IN  /\ IsPrefix(started, expected)
                  /\ Len(started) + Len(pending) = Len(expected)
                  /\ pc \in {"probtrackx", "done"} => started = expected
        /\ \A i \in 1..Len(procs) :
              IsProbtrackx(procs[i].cmd) =>
                 /\ i = Len(procs)
                 /\ \A j \in 1..(i - 1) :
                       IsGeometry(procs[j].cmd) /\ procs[j].state = "exited"

C6_Witness ==
    /\ Ptx
    /\ pc = "done"
    /\ ~argv.no_geometry_fix
    /\ maskQuery = "exists"
    /\ Len(GeometryCommands) >= 2

(* C7 *)

\* C7: with -n, get_roi_list is not called, no network file is created or
\* overwritten in the input directory, and the path given is the network file of
\* the geometry step and the value after -x; without -n the value after -x is the
\* network file get_roi_list wrote.
C7_UserNetworkKept ==
    (Ptx /\ pc \notin {"main", "exit"}) =>
        IF argv.network # None
        THEN /\ "write" \notin SeqRange(effects)
             /\ rois = <<>>
             /\ network_file = argv.network
             /\ GeneratedNetworkFile \in DOMAIN files =>
                   files[GeneratedNetworkFile] = StaleContent
             /\ GeometryCommands # <<>> =>
                   /\ argv.network \in DOMAIN files
                   /\ IsPrefix([i \in 1..Len(GeometryCommands) |->
                                   DropNL(GeometryCommands[i])],
                               ExpectedGeometry(files[argv.network]))
             /\ \A i \in 1..Len(procs) :
                   IsProbtrackx(procs[i].cmd) => XValue(procs[i].cmd) = argv.network
        ELSE \A i \in 1..Len(procs) :
                IsProbtrackx(procs[i].cmd) =>
                   /\ "write" \in SeqRange(effects)
                   /\ GeneratedNetworkFile \in DOMAIN files
                   /\ XValue(procs[i].cmd) = GeneratedNetworkFile

C7_Witness ==
    /\ Ptx
    /\ pc = "done"
    /\ argv.network # None
    /\ GeneratedNetworkFile \in DOMAIN files
    /\ GeometryCommands # <<>>

(* C8 *)

\* C8: an external command that failed is never run again (and its failure does
\* not end the script: no exception follows a started command).
C8_FailedCommandNotRunAgain ==
    /\ [][(Len(procs') = Len(procs) + 1 /\ Len(procs) > 0 /\ status # 0) =>
             procs'[Len(procs')].cmd # procs[Len(procs)].cmd]_vars
    /\ [](procs # <<>> => error = "none")

(* C9 *)

\* C9: every callSub(run_command) starts the command exactly once and returns
\* after it has exited: the commands executed are the commands handed to callSub,
\* and no two external processes are alive together.
C9_OneInvocationPerCall ==
    /\ Cardinality(Running) <= 1
    /\ IsPrefix(Commands, issued)
    /\ pc = "returned" => Commands = issued

(* C10 *)

\* the commands C10 lists for one subject, in its order
SubjectCommands(subj) ==
    LET subDir == SubjectsDirectory \o <<"/">> \o subj
        outputDir == subDir \o <<"/", "Schaefer2018_labels">>
    IN  << SurfCmd("lh", subj, subDir, SubjectsDirectory, AtlasDirectory, FsAverage),
           SurfCmd("rh", subj, subDir, SubjectsDirectory, AtlasDirectory, FsAverage),
           Parc2segCmd(subj, subDir),
           Annot2labelCmd(subj, "lh", outputDir),
           Annot2labelCmd(subj, "rh", outputDir) >>

RECURSIVE ExpectedRegCommands(_)
ExpectedRegCommands(subjects) ==
    IF subjects = <<>> THEN <<>>
    ELSE (IF Head(subjects) = <<"fsaverage6">> THEN <<>>
          ELSE SubjectCommands(Head(subjects)))
         \o ExpectedRegCommands(Tail(subjects))

\* C10: registerYeoAtlas processes every entry of the subjects directory except
\* fsaverage6: the FreeSurfer commands it starts are, subject after subject in
\* listing order, mri_surf2surf lh, mri_surf2surf rh, mri_aparc2aseg,
\* mri_annotation2label lh, mri_annotation2label rh, and when the script has ended
\* all of them have been started.
C10_EverySubjectProcessed ==
    (Reg /\ call.fn = "main" /\ AllRequiredGiven) =>
        /\ IsPrefix(SelectSeq(Commands, IsFreeSurfer), ExpectedRegCommands(subjectsDir))
        /\ pc \in {"done", "crashed"} =>
              SelectSeq(Commands, IsFreeSurfer) = ExpectedRegCommands(subjectsDir)

====
